---- MODULE Spec2Model ----
(***************************************************************************)
(* Model of tldr_scraper.py: the TDLRScraper fetch loop                    *)
(* (scrape_all_projects), the SQLite projects table (init_database,        *)
(* save_to_database) and ProjectSearcher.search_projects.                  *)
(*                                                                         *)
(* One behaviour fixes the remote dataset and the command-line arguments   *)
(* and then follows any number of program invocations on one database      *)
(* path: a scrape invocation (main, lines 293-302: construct a TDLRScraper *)
(* and call scrape_all_projects once) or a search invocation (lines        *)
(* 304-308).  The steps of a scrape are its blocking points: the count     *)
(* probe in flight, a paging request in flight, a page being written, the  *)
(* inter-page sleep and the sleep that follows a failed page; the          *)
(* statements between two blocking points belong to the step that reaches  *)
(* them.  The database file is taken to be writable: sqlite3.connect and   *)
(* commit do not raise.                                                    *)
(***************************************************************************)
EXTENDS Integers, Sequences, FiniteSets, TLC

\* ------------------------------------------------------------------ bounds
MaxN == 2          \* longest remote dataset; largest small argument value
MaxStart == 16     \* largest offset a paging request is issued from
MaxUuid == 2       \* uuid4 values drawn over a behaviour
MaxClock == 1      \* seconds between init_database and the last write

\* ------------------------------------------------------- program constants
ApiMaxLen == 15    \* min(batch_size, 15)
SearchLimit == 100 \* LIMIT 100

None == "None"

\* Python truthiness of an optional text value: None and '' are falsy.
TruthyText(v) == v # None /\ v # ""

\* `if max_records`: None and 0 are both falsy.
MaxSet(m) == m # -1 /\ m # 0

Min(a, b) == IF a < b THEN a ELSE b

\* The characters of the text values used in the model.
Chars(s) ==
    CASE s = "" -> << >>
      [] s = "a" -> <<"a">>
      [] s = "b" -> <<"b">>
      [] s = "ab" -> <<"a", "b">>
      [] s = "x" -> <<"x">>
      [] OTHER -> << >>

\* ------------------------------------------------------------ remote data
\* A project object of the API's "data" array.  EstimatedCost "dict" stands
\* for a JSON value sqlite3 cannot bind (cursor.execute raises).
Projects ==
    { [ProjectId |-> "P1", ProjectNumber |-> "x", ProjectName |-> "a",
       FacilityName |-> None, EstimatedCost |-> "num"],
      [ProjectId |-> "P1", ProjectNumber |-> "x", ProjectName |-> "ab",
       FacilityName |-> None, EstimatedCost |-> "num"],
      [ProjectId |-> None, ProjectNumber |-> "x", ProjectName |-> "b",
       FacilityName |-> "a", EstimatedCost |-> "num"],
      [ProjectId |-> None, ProjectNumber |-> "x", ProjectName |-> "ab",
       FacilityName |-> "a", EstimatedCost |-> "num"],
      [ProjectId |-> None, ProjectNumber |-> None, ProjectName |-> "a",
       FacilityName |-> "b", EstimatedCost |-> "num"],
      [ProjectId |-> "P2", ProjectNumber |-> "b", ProjectName |-> "b",
       FacilityName |-> None, EstimatedCost |-> "dict"] }

Datasets == UNION { [1..n -> Projects] : n \in 0..MaxN }

BatchSizes == (1..MaxN) \cup {ApiMaxLen + 1}

\* max_records: -1 stands for None (the argument's default).
MaxRecordsArgs == {-1} \cup (0..MaxN)

SearchTerms == {"a", "x"}

VARIABLES
    dataset,        \* the records the server holds
    batch_size,     \* --batch-size
    max_records,    \* --max-records (-1: None)
    store,          \* rows of table projects, in rowid order
    pc,             \* where the scrape invocation is
    start,          \* scrape_all_projects: start
    total_saved,    \* scrape_all_projects: total_saved
    current_batch_size,
    projects,       \* the page handed to save_to_database
    ret,            \* value returned by scrape_all_projects
    stop,           \* which exit of the loop was taken
    requests,       \* paging requests issued by this run
    saves,          \* save_to_database calls of this run
    errors,         \* paging requests of this run that raised
    uuid4,          \* uuid4 values drawn so far
    now,            \* second of the last write, counted from init_database
    results,        \* rows returned by the last search_projects
    fetched,        \* every project handed to save_to_database by this run
    prevDone,       \* the previous scrape invocation ran to completion without error
    prevStore       \* contents of the store when it ended

vars == <<dataset, batch_size, max_records, store, pc, start, total_saved,
          current_batch_size, projects, ret, stop, requests, saves, errors,
          uuid4, now, results, fetched, prevDone, prevStore>>

args == <<dataset, batch_size, max_records>>

\* Line 171: start += 15 after a failed page, whatever the batch size.
ErrorSkipBatchSize == Min(batch_size, ApiMaxLen)

ErrorSkip == 15
hist == <<prevDone, prevStore>>

\* ------------------------------------------------------------------ store
\* Identifier of a project (lines 189-198); u is the next uuid4 draw.
Uuid5(number) == <<"uuid5", number>>

ProjectIdOf(project, u) ==
    IF TruthyText(project.ProjectId) THEN <<"api", project.ProjectId>>
    ELSE IF TruthyText(project.ProjectNumber) THEN Uuid5(project.ProjectNumber)
    ELSE <<"uuid4", ToString(u)>>

DrawsUuid4(project) ==
    ~TruthyText(project.ProjectId) /\ ~TruthyText(project.ProjectNumber)

Bindable(project) == project.EstimatedCost # "dict"

Row(project, id, ts) ==
    [project_id |-> id,
     project_number |-> project.ProjectNumber,
     project_name |-> project.ProjectName,
     facility_name |-> project.FacilityName,
     estimated_cost |-> project.EstimatedCost,
     date_scraped |-> ts]

\* INSERT OR IGNORE: a conflicting row is kept and the new one dropped.
InsertOrIgnore(st, row) ==
    IF \E i \in 1..Len(st) : st[i].project_id = row.project_id
    THEN st ELSE st \o <<row>>

\* INSERT OR REPLACE with the UNIQUE constraint on project_number.
InsertOrReplaceByNumber(st, row) ==
    SelectSeq(st, LAMBDA r : r.project_number # row.project_number) \o <<row>>

\* INSERT OR REPLACE on the UNIQUE column project_id: the conflicting row is
\* deleted and the new row is appended with a new rowid.
InsertOrReplace(st, row) ==
    SelectSeq(st, LAMBDA r : r.project_id # row.project_id) \o <<row>>

\* save_to_database: the for loop from position k, then commit.
RECURSIVE SaveFrom(_, _, _, _, _, _)
SaveFrom(st, page, k, ts, u, count) ==
    IF k > Len(page) THEN [store |-> st, saved_count |-> count, uuid4 |-> u]
    ELSE LET project == page[k]
             id == ProjectIdOf(project, u)
             u2 == IF DrawsUuid4(project) THEN u + 1 ELSE u
         IN  IF Bindable(project)
             THEN SaveFrom(InsertOrReplace(st, Row(project, id, ts)),
                           page, k + 1, ts, u2, count + 1)
             ELSE SaveFrom(st, page, k + 1, ts, u2, count)

\* saved_count incremented for every record, failed writes included.
save_to_database_counting_all(st, page, ts, u) ==
    [SaveFrom(st, page, 1, ts, u, 0) EXCEPT !.saved_count = Len(page)]

save_to_database(st, page, ts, u) == SaveFrom(st, page, 1, ts, u, 0)

Uuid4Draws(page) == Cardinality({k \in 1..Len(page) : DrawsUuid4(page[k])})

\* ----------------------------------------------------------------- server
\* The API honours start/length.
ServerPage(st, length) ==
    IF st >= Len(dataset) \/ length <= 0 THEN << >>
    ELSE SubSeq(dataset, st + 1, Min(st + length, Len(dataset)))

\* ------------------------------------------------------------- fetch loop
\* Lines 108-128: the head of the while loop, from the running total to
\* either a break or the next paging request.
LoopHead(total) ==
    IF MaxSet(max_records) /\ total >= max_records
    THEN [break |-> TRUE, length |-> 0]
    ELSE LET size == Min(batch_size, ApiMaxLen)
         IN  IF MaxSet(max_records) /\ total + size > max_records
             THEN [break |-> max_records - total <= 0,
                   length |-> max_records - total]
             ELSE [break |-> FALSE, length |-> size]

\* The loop returns to its head with running total `total` and offset `st`.
Iterate(total, st) ==
    LET h == LoopHead(total)
    IN  /\ start' = st
        /\ total_saved' = total
        /\ projects' = << >>
        /\ IF h.break
           THEN /\ pc' = "done"
                /\ stop' = "limit"
                /\ ret' = total
                /\ current_batch_size' = 0
                /\ requests' = requests
           ELSE /\ pc' = "request"
                /\ stop' = stop
                /\ ret' = ret
                /\ current_batch_size' = h.length
                /\ requests' = requests + 1

\* Line 147: a page shorter than requested signals the end of the data.
EndOfDataOrFull(page, length) == Len(page) <= length

EndOfData(page, length) == Len(page) < length

\* The loop is left by a break: line 174-175 return total_saved.
Break(total, st, why) ==
    /\ pc' = "done"
    /\ stop' = why
    /\ ret' = total
    /\ total_saved' = total
    /\ start' = st
    /\ projects' = << >>
    /\ UNCHANGED <<current_batch_size, requests>>

Init ==
    /\ dataset \in Datasets
    /\ batch_size \in BatchSizes
    /\ max_records \in MaxRecordsArgs
    /\ store = << >>
    /\ pc = "ready"
    /\ start = 0
    /\ total_saved = 0
    /\ current_batch_size = 0
    /\ projects = << >>
    /\ ret = 0
    /\ stop = "none"
    /\ requests = 0
    /\ saves = 0
    /\ errors = 0
    /\ uuid4 = 0
    /\ now = 0
    /\ results = << >>
    /\ fetched = << >>
    /\ prevDone = FALSE
    /\ prevStore = {}

\* What the store holds, without the local ingestion timestamp.
Contents(st) ==
    { [project_id |-> st[i].project_id,
       project_number |-> st[i].project_number,
       project_name |-> st[i].project_name,
       facility_name |-> st[i].facility_name,
       estimated_cost |-> st[i].estimated_cost] : i \in 1..Len(st) }

CleanStop == stop \in {"limit", "empty", "short"} /\ errors = 0

\* CREATE TABLE IF NOT EXISTS alone: an existing table is kept.
init_database_keeping_rows == store

\* init_database: DROP TABLE IF EXISTS, then CREATE TABLE: an empty table.
init_database == << >>

Construct ==
    /\ pc \in {"done", "crashed"}
    /\ store' = init_database
    /\ pc' = "ready"
    /\ start' = 0
    /\ total_saved' = 0
    /\ current_batch_size' = 0
    /\ projects' = << >>
    /\ ret' = 0
    /\ stop' = "none"
    /\ requests' = 0
    /\ saves' = 0
    /\ errors' = 0
    /\ results' = << >>
    /\ fetched' = << >>
    /\ prevDone' = (pc = "done" /\ CleanStop)
    /\ prevStore' = IF pc = "done" /\ CleanStop THEN Contents(store) ELSE {}
    /\ now' = 0
    /\ UNCHANGED <<args, uuid4>>

\* scrape_all_projects is called: the count probe (length 1) is posted.
StartRun ==
    /\ pc = "ready"
    /\ uuid4 + Uuid4Draws(dataset) <= MaxUuid
    /\ pc' = "probe"
    /\ UNCHANGED <<args, hist, store, start, total_saved, current_batch_size,
                   projects, ret, stop, requests, saves, errors, uuid4, now,
                   results, fetched>>

\* Lines 91-96, 105-106: the probe answers 200; the loop is entered.
ProbeOk ==
    /\ pc = "probe"
    /\ Iterate(0, 0)
    /\ UNCHANGED <<args, hist, store, saves, errors, uuid4, now, results, fetched>>

\* The probe fails and the run goes on into the loop.
ProbeFailFallsThrough ==
    /\ pc = "probe"
    /\ pc' = "request"
    /\ stop' = "probe_fail"
    /\ requests' = requests + 1
    /\ current_batch_size' = Min(batch_size, ApiMaxLen)
    /\ UNCHANGED <<args, hist, store, start, total_saved, projects, ret,
                   saves, errors, uuid4, now, results, fetched>>

\* Lines 97-102: the probe answers another status, or raises.
ProbeFail ==
    /\ pc = "probe"
    /\ pc' = "done"
    /\ stop' = "probe_fail"
    /\ ret' = 0
    /\ UNCHANGED <<args, hist, store, start, total_saved, current_batch_size,
                   projects, requests, saves, errors, uuid4, now, results, fetched>>

\* Lines 133-139: the page answers 200.
PageOk ==
    /\ pc = "request"
    /\ LET page == ServerPage(start, current_batch_size)
       IN  IF page = << >>
           THEN Break(total_saved, start, "empty")
           ELSE /\ pc' = "saving"
                /\ projects' = page
                /\ UNCHANGED <<start, total_saved, current_batch_size, ret,
                               stop, requests>>
    /\ UNCHANGED <<args, hist, store, saves, errors, uuid4, now, results, fetched>>

\* Lines 161-163: the page answers a status other than 200.
PageStatus ==
    /\ pc = "request"
    /\ Break(total_saved, start, "status")
    /\ UNCHANGED <<args, hist, store, saves, errors, uuid4, now, results, fetched>>

\* Lines 168-172: the request or response.json() raises.
PageException ==
    /\ pc = "request"
    /\ start + ErrorSkip <= MaxStart
    /\ errors' = errors + 1
    /\ start' = start + ErrorSkip
    /\ pc' = "errsleep"
    /\ UNCHANGED <<args, hist, store, total_saved, current_batch_size,
                   projects, ret, stop, requests, saves, uuid4, now, results, fetched>>

\* Lines 141-160: the page is written and committed.  CURRENT_TIMESTAMP has
\* a resolution of one second: the write falls in the second of the previous
\* write or in a later one.
SavePage ==
    /\ pc = "saving"
    /\ \E ts \in now..Min(now + 1, MaxClock) :
       LET w == save_to_database(store, projects, ts, uuid4)
           total == total_saved + w.saved_count
       IN  /\ store' = w.store
           /\ now' = ts
           /\ uuid4' = w.uuid4
           /\ saves' = saves + 1
           /\ fetched' = fetched \o projects
           /\ IF EndOfData(projects, current_batch_size)
              THEN Break(total, start, "short")
              ELSE IF MaxSet(max_records) /\ total >= max_records
              THEN Break(total, start + Len(projects), "limit")
              ELSE /\ pc' = "sleep"
                   /\ total_saved' = total
                   /\ start' = start + Len(projects)
                   /\ projects' = << >>
                   /\ UNCHANGED <<current_batch_size, ret, stop, requests>>
    /\ UNCHANGED <<args, hist, errors, results>>

\* Line 160 returns: the loop goes round.
SleepDone ==
    /\ pc = "sleep"
    /\ Iterate(total_saved, start)
    /\ UNCHANGED <<args, hist, store, saves, errors, uuid4, now, results, fetched>>

\* Line 172 returns: the loop goes round.
ErrorSleepDone ==
    /\ pc = "errsleep"
    /\ Iterate(total_saved, start)
    /\ UNCHANGED <<args, hist, store, saves, errors, uuid4, now, results, fetched>>

\* Lines 165-167: KeyboardInterrupt raised inside the try block (in the post,
\* in save_to_database before its commit, whose connection is then dropped
\* with the page's inserts uncommitted, or in the sleep of line 160).
Interrupt ==
    /\ pc \in {"request", "saving", "sleep"}
    /\ Break(total_saved, start, "interrupt")
    /\ UNCHANGED <<args, hist, store, saves, errors, uuid4, now, results, fetched>>

\* Lines 165-167: KeyboardInterrupt raised in save_to_database after its
\* commit (line 227) and before line 142 has added saved_count to the total.
InterruptAfterCommit ==
    /\ pc = "saving"
    /\ \E ts \in now..Min(now + 1, MaxClock) :
       LET w == save_to_database(store, projects, ts, uuid4)
       IN  /\ store' = w.store
           /\ now' = ts
           /\ uuid4' = w.uuid4
           /\ saves' = saves + 1
           /\ fetched' = fetched \o projects
    /\ Break(total_saved, start, "interrupt")
    /\ UNCHANGED <<args, hist, errors, results>>

\* KeyboardInterrupt raised where no handler covers it: in the probe (line
\* 100 catches Exception only) or in the sleep of line 172, which is inside
\* the except clause of the same try statement.
InterruptUncaught ==
    /\ pc \in {"probe", "errsleep"}
    /\ pc' = "crashed"
    /\ UNCHANGED <<args, hist, store, start, total_saved, current_batch_size,
                   projects, ret, stop, requests, saves, errors, uuid4, now,
                   results, fetched>>

\* ----------------------------------------------------------------- search
\* SQLite's LIKE on character sequences: % matches any run of characters,
\* _ any one character.
RECURSIVE Like(_, _)
Like(text, pattern) ==
    IF pattern = << >> THEN text = << >>
    ELSE IF Head(pattern) = "%"
    THEN Like(text, Tail(pattern)) \/ (text # << >> /\ Like(Tail(text), pattern))
    ELSE /\ text # << >>
         /\ Head(pattern) = "_" \/ Head(pattern) = Head(text)
         /\ Like(Tail(text), Tail(pattern))

\* field LIKE ?, which is not true of a NULL field.
FieldLike(value, pattern) == value # None /\ Like(Chars(value), pattern)

\* Lines 255-265: the WHERE clause over the default search_fields.
Matches(row, term) ==
    \E value \in {row.project_number, row.project_name, row.facility_name} :
        \E pattern \in {Chars(term), <<"%">> \o Chars(term) \o <<"%">>} :
            FieldLike(value, pattern)

\* ORDER BY date_scraped (ascending, the default).
OrderByAscending(first, second) == first.date_scraped <= second.date_scraped

\* ORDER BY date_scraped DESC: row `first` may come before row `second`.
OrderBy(first, second) == first.date_scraped >= second.date_scraped

\* The orders SQLite may return the matching rows in: rows of equal
\* date_scraped come in no promised order.
Orderings(st, term) ==
    LET hits == {i \in 1..Len(st) : Matches(st[i], term)}
        n == Cardinality(hits)
    IN  { [k \in 1..n |-> st[f[k]]] :
            f \in { g \in [1..n -> hits] :
                      /\ \A a, b \in 1..n : a # b => g[a] # g[b]
                      /\ \A a, b \in 1..n :
                             a < b => OrderBy(st[g[a]], st[g[b]]) } }

\* search_projects(term) by a search invocation; ProjectSearcher.__init__
\* requires the database file, which every state of this model has.
Search ==
    /\ pc \in {"done", "crashed"}
    /\ \E term \in SearchTerms :
          \E rows \in Orderings(store, term) :
              results' = SubSeq(rows, 1, Min(Len(rows), SearchLimit))
    /\ UNCHANGED <<args, hist, store, pc, start, total_saved,
                   current_batch_size, projects, ret, stop, requests, saves,
                   errors, uuid4, now, fetched>>

Next ==
    \/ Construct
    \/ StartRun
    \/ ProbeOk
    \/ ProbeFail
    \/ PageOk
    \/ PageStatus
    \/ PageException
    \/ SavePage
    \/ SleepDone
    \/ ErrorSleepDone
    \/ Interrupt
    \/ InterruptAfterCommit
    \/ InterruptUncaught
    \/ Search

Spec == Init /\ [][Next]_vars

\* Every blocking call of a run returns: a request answers or raises within
\* its 30 s timeout, a write commits, a sleep ends.
Respond ==
    \/ ProbeOk
    \/ ProbeFail
    \/ PageOk
    \/ PageStatus
    \/ PageException
    \/ SavePage
    \/ SleepDone
    \/ ErrorSleepDone

\* One scrape invocation, from the constructed TDLRScraper to the end of
\* scrape_all_projects.
RunNext ==
    \/ StartRun
    \/ Respond
    \/ Interrupt
    \/ InterruptAfterCommit
    \/ InterruptUncaught

FairSpec == Init /\ [][RunNext]_vars /\ WF_vars(Respond)

\* ----------------------------------------------------------------- claims
N == Len(dataset)
P == batch_size

Ceil(a, b) == (a + b - 1) \div b

BindableCount(page) == Cardinality({k \in 1..Len(page) : Bindable(page[k])})

AllBindable(page) == \A k \in 1..Len(page) : Bindable(page[k])

Ids(st) == {st[i].project_id : i \in 1..Len(st)}

\* A run without max_records, with a page length within 1..15, in which no
\* paging request has failed.
NoFailRun == max_records = -1 /\ P <= ApiMaxLen /\ errors = 0

EndedByData == pc = "done" /\ stop \in {"empty", "short"}

\* C1 as stated: an error-free run without max_records ends having issued
\* exactly ceil(N/P) paging requests and persisted exactly N records.
C1_CeilRequests ==
    (EndedByData /\ NoFailRun /\ AllBindable(dataset)) =>
        (requests = Ceil(N, P) /\ total_saved = N)

C1_Final ==
    (EndedByData /\ NoFailRun) =>
        /\ requests = (N \div P) + 1
        /\ fetched = dataset
        /\ total_saved = BindableCount(dataset)

C1_Progress ==
    (pc = "request" /\ NoFailRun) =>
        (start = (requests - 1) * P /\ start <= N)

\* C1 amended: such a run terminates; it has then issued floor(N/P) + 1
\* paging requests (one more than ceil(N/P) when P divides N, N = 0
\* included), has handed all N records to the store and has counted those
\* whose write did not fail; every request is issued from (requests-1)*P <= N.
C1_FloorPlusOne ==
    /\ [](C1_Final /\ C1_Progress)
    /\ (pc = "probe") ~> (pc \in {"done", "crashed"})

C1_Witness ==
    /\ EndedByData /\ NoFailRun
    /\ N = 2 /\ P = 2 /\ requests = 2 /\ total_saved = 2

\* C2 as stated: with max_records = K < N and no failure, the running total
\* never exceeds K and the run ends having persisted exactly K records.
C2_MaxRecordsBound ==
    (max_records # -1 /\ max_records < N /\ errors = 0
       /\ AllBindable(dataset)) =>
        /\ total_saved <= max_records
        /\ (pc = "done" /\ CleanStop) => total_saved = max_records

Fields(r) ==
    [project_number |-> r.project_number,
     project_name |-> r.project_name,
     facility_name |-> r.facility_name,
     estimated_cost |-> r.estimated_cost]

IsUuid4(id) == id[1] = "uuid4"

Keyed(rows) == {r \in rows : ~IsUuid4(r.project_id)}

SecondRunDone == pc = "done" /\ CleanStop /\ prevDone

\* C3 as stated: after a second complete, error-free run of the Fetcher over
\* the same dataset the store holds the same records, identifiers included,
\* as after the first, for every dataset.
C3_SameContents == SecondRunDone => Contents(store) = prevStore

\* C3 amended: the second run leaves the same number of rows, the same rows
\* under every identifier that was provided or derived from a ProjectNumber,
\* and the same source-provided fields; rows of records that carry neither
\* a ProjectId nor a ProjectNumber come back under new random identifiers.
C3_SameKeyedContents ==
    SecondRunDone =>
        /\ Len(store) = Cardinality(prevStore)
        /\ Keyed(Contents(store)) = Keyed(prevStore)
        /\ {Fields(r) : r \in Contents(store)} = {Fields(r) : r \in prevStore}
        /\ \A r \in Contents(store) :
              IsUuid4(r.project_id) => r \notin prevStore

C3_Witness ==
    /\ SecondRunDone
    /\ \E r \in Contents(store) : IsUuid4(r.project_id)
    /\ \E r \in Contents(store) : ~IsUuid4(r.project_id)

\* The identifier of a project that carries a ProjectId or a ProjectNumber.
KeyOf(project) == ProjectIdOf(project, 0)

\* Record k is the last one of the page written under its identifier.
LastWrite(page, k) ==
    /\ Bindable(page[k])
    /\ ~DrawsUuid4(page[k])
    /\ \A j \in (k + 1)..Len(page) :
          ~(Bindable(page[j]) /\ ~DrawsUuid4(page[j])
              /\ KeyOf(page[j]) = KeyOf(page[k]))

WrittenKeys(page) ==
    {KeyOf(page[k]) : k \in {j \in 1..Len(page) :
                                 Bindable(page[j]) /\ ~DrawsUuid4(page[j])}}

RandomWrites(page) ==
    Cardinality({k \in 1..Len(page) : Bindable(page[k]) /\ DrawsUuid4(page[k])})

UniqueIds(st) ==
    \A i, j \in 1..Len(st) : i # j => st[i].project_id # st[j].project_id

\* C4: no two rows share a project_id, and a save_to_database call leaves
\* exactly one row under each provided or derived identifier it wrote, that
\* row holding the fields of the last record written under it; the row
\* count grows only by the identifiers that were not in the store.
C4_UpsertUnique ==
    [][ /\ UniqueIds(store')
        /\ saves' = saves + 1 =>
              /\ \A k \in 1..Len(projects) :
                    LastWrite(projects, k) =>
                        \E i \in 1..Len(store') :
                            /\ store'[i].project_id = KeyOf(projects[k])
                            /\ Fields(store'[i]) = Fields(Row(projects[k], 0, 0))
              /\ Len(store') = Len(store) + RandomWrites(projects)
                    + Cardinality(WrittenKeys(projects) \ Ids(store)) ]_vars

\* A second page has replaced the row the first page wrote.
C4_Witness ==
    /\ saves = 2
    /\ Len(store) = 1
    /\ Len(fetched) = 2
    /\ fetched[1].ProjectName # fetched[2].ProjectName
    /\ store[1].project_name = fetched[2].ProjectName

\* C5 as stated: a persisted identifier stays in the store in every later
\* state, across Fetcher constructions, runs and searches.
C5_NeverDeleted == [][Ids(store) \subseteq Ids(store')]_vars

\* C5 amended: only the construction of a Fetcher (init_database drops the
\* table) removes an identifier; no step of a run and no search does.
C5_DeletedOnlyByConstruct ==
    [][Construct \/ Ids(store) \subseteq Ids(store')]_vars

C5_Witness ==
    /\ pc = "done"
    /\ saves >= 2
    /\ Len(store) >= 2
    /\ results # << >>

\* C6 as stated: an interrupt at any point of the fetch loop is caught, the
\* run returns its running total and the store keeps what was persisted.
C6_GracefulInterrupt ==
    [][ ((Interrupt \/ InterruptAfterCommit \/ InterruptUncaught)
           /\ pc \in {"request", "saving", "sleep", "errsleep"}) =>
          /\ pc' = "done"
          /\ ret' = total_saved
          /\ Ids(store) \subseteq Ids(store') ]_vars

FailedPage(step_start, step_total, step_store) ==
    /\ pc' = "errsleep"
    /\ start' = step_start + 15
    /\ total_saved' = step_total
    /\ store' = step_store

\* C7 as stated: any failure of a paging request, an error status included,
\* leaves the loop running, total and store unchanged, start advanced by 15.
C7_FailureNeverAborts ==
    [][(PageException \/ PageStatus) =>
          FailedPage(start, total_saved, store)]_vars

\* C7 amended: a paging request that raises leaves total and store
\* unchanged, advances start by 15 whatever the batch size, and after the
\* pause the loop issues another request from that offset; a response with
\* a status other than 200 ends the loop, which returns the running total.
C7_ExceptionNeverAborts ==
    [][ /\ PageException => FailedPage(start, total_saved, store)
        /\ ErrorSleepDone =>
              /\ pc' = "request"
              /\ requests' = requests + 1
              /\ <<start', total_saved', store'>> = <<start, total_saved, store>>
        /\ PageStatus =>
              /\ pc' = "done"
              /\ ret' = total_saved
              /\ store' = store ]_vars

\* A request issued from the offset reached by skipping 15, with a batch
\* size other than 15.
C7_Witness ==
    /\ pc = "request"
    /\ errors = 1
    /\ start = 16
    /\ batch_size = 1
    /\ requests = 3

\* C8: a failed count probe ends the run returning 0, with no paging
\* request issued and nothing written.
C8_FatalProbe ==
    stop = "probe_fail" =>
        /\ pc \in {"done"}
        /\ ret = 0
        /\ requests = 0
        /\ saves = 0
        /\ store = << >>

C8_Witness == pc = "done" /\ stop = "probe_fail" /\ N > 0 /\ prevStore # {}

\* Position of a row in rowid (insertion) order.
RowIndex(row) == CHOOSE i \in 1..Len(store) : store[i] = row

\* C9 as stated: at most 100 rows, and of two matching rows the one inserted
\* later comes first.
C9_NewestFirst ==
    /\ Len(results) <= SearchLimit
    /\ \A a, b \in 1..Len(results) :
          a < b => RowIndex(results[a]) > RowIndex(results[b])

\* C9 amended: at most 100 rows, in non-increasing order of date_scraped,
\* which counts whole seconds: of two matching rows the one written in a
\* later second comes first, and rows written within the same second (those
\* of one batch, or of batches less than a second apart) come in any order.
C9_LaterSecondFirst ==
    /\ Len(results) <= SearchLimit
    /\ \A a, b \in 1..Len(results) :
          /\ a < b => results[a].date_scraped >= results[b].date_scraped
          /\ (RowIndex(results[a]) < RowIndex(results[b])
                /\ results[a].date_scraped < results[b].date_scraped) => b < a

C9_Witness ==
    /\ Len(results) = 2
    /\ results[1].date_scraped > results[2].date_scraped
    /\ RowIndex(results[1]) > RowIndex(results[2])

\* C10 as stated: the value returned is the number of rows the store holds.
C10_ReturnIsRowCount == pc = "done" => ret = Len(store)

\* C10 amended: unless the run was interrupted, the value returned is the
\* number of writes that did not fail, a write that replaces a row of the
\* same run included; the store holds one row per random identifier and per
\* distinct provided or derived identifier written, so never more rows than
\* that number.  An interrupted run returns the count of the pages before
\* the interrupted one, never more than the writes that did not fail.
C10_ReturnIsWriteCount ==
    pc = "done" =>
        /\ stop # "interrupt" => ret = BindableCount(fetched)
        /\ ret <= BindableCount(fetched)
        /\ Len(store) = RandomWrites(fetched) + Cardinality(WrittenKeys(fetched))
        /\ Len(store) <= BindableCount(fetched)

C10_Witness ==
    /\ pc = "done"
    /\ stop # "interrupt"
    /\ ret = 2
    /\ Len(store) = 1
    /\ BindableCount(fetched) = 2
====
